---- MODULE Spec2Model ----
(***************************************************************************)
(* Annotation-Converter: the VOC / COCO importers, the canonical-table     *)
(* assembler, the COCO exporter, the format sniffers and the archive       *)
(* organizer, modelled as four state machines that share one module.       *)
(*   SpecImport   - voc_to_dataframe / coco_to_dataframe (both variants)   *)
(*   SpecExport   - dataframe_to_bina_coco (both variants)                 *)
(*   SpecSniff    - _is_pascal_voc / _is_yolo / _is_coco on one file       *)
(*   SpecOrganize - organize_files_and_identify_format                     *)
(* Each specification leaves the other machines' variables at their idle   *)
(* initial values.                                                         *)
(***************************************************************************)
EXTENDS Integers, Sequences, FiniteSets, TLC

VARIABLES
    \* ---- importers ----
    importer,       \* which importer runs
    pc,             \* importer control point
    xml_files,      \* the .xml files read so far, in listing order
    root,           \* <<file>> while a file's objects are iterated, else <<>>
    objs,           \* root.findall('object') not yet visited
    img_data, ann_data, cat_data,
    img_id, cat_id, annotation_id,
    categories,     \* dict: category name -> cat_id
    json_files,     \* the .json documents loaded so far, in listing order
    all_images, all_categories, all_annotations,
    df,             \* <<table>> once the importer returned, else <<>>
    \* ---- exporter ----
    exporter,       \* which exporter runs
    exp_pc,         \* exporter control point
    dataframe,      \* the table passed in (a sequence of rows)
    output_path,    \* the path passed in
    exp_df,         \* df: the exporter's working copy
    exp_i,          \* rows of df already visited
    df_outputI, df_outputA, df_outputC,
    outfile,        \* the file system: path -> <<document>>, or <<>> if absent
    \* ---- sniffers ----
    sniff_file, sniff_result,
    \* ---- organizer ----
    org_pc,         \* organizer control point
    walked,         \* the files os.walk has yielded so far, in order
    fs_images,      \* images bucket: file name -> content
    fs_annotations, \* annotation buckets: <<bucket, file name>> -> content
    identified_format, num_images, num_annotations

impVars == <<importer, pc, xml_files, root, objs, img_data, ann_data, cat_data,
             img_id, cat_id, annotation_id, categories, json_files,
             all_images, all_categories, all_annotations, df>>
expVars == <<exporter, exp_pc, dataframe, output_path, exp_df, exp_i,
             df_outputI, df_outputA, df_outputC, outfile>>
sniffVars == <<sniff_file, sniff_result>>
orgVars == <<org_pc, walked, fs_images, fs_annotations,
             identified_format, num_images, num_annotations>>
vars == <<impVars, expVars, sniffVars, orgVars>>

(***************************************************************************)
(* Bounds of the model.                                                    *)
(***************************************************************************)
MaxFiles == 2       \* files read by one import run
MaxAnn == 3         \* object elements read by one VOC import run
MaxCoord == 220     \* largest integer whose decimal text is parsed
MaxRows == 3        \* rows of a table given to the exporter
MaxLines == 2       \* lines of a sniffed text file
MaxWalk == 3        \* files of an extracted tree

(***************************************************************************)
(* Cells of a pandas table: an integer, a string, a list or NaN.           *)
(***************************************************************************)
IntC(n) == [int |-> n]
StrC(s) == [str |-> s]
ListC(q) == [list |-> q]
NaN == [nan |-> TRUE]
IsInt(c) == "int" \in DOMAIN c
IsStr(c) == "str" \in DOMAIN c
IsNaN(c) == "nan" \in DOMAIN c

Max(a, b) == IF a >= b THEN a ELSE b
Range(q) == {q[i] : i \in 1..Len(q)}
SeqsUpTo(S, n) == UNION {[1..k -> S] : k \in 0..n}

(* The text of <missing> stands for an element that find() does not find. *)
Missing == "<missing>"

(* int(text): the decimal numerals of CoordRange parse, anything else raises. *)
CoordRange == 0..MaxCoord
Numerals == [n \in CoordRange |-> ToString(n)]
IsIntText(s) == \E n \in CoordRange : Numerals[n] = s
IntOfText(s) == CHOOSE n \in CoordRange : Numerals[n] = s

(* str(n) as astype(str) writes it. *)
AsStr(c) ==
    IF IsInt(c) THEN StrC(ToString(c.int))
    ELSE IF IsNaN(c) THEN StrC("nan")
    ELSE IF IsStr(c) THEN c
    ELSE StrC("[]")

schema == <<"info", "img_id", "img_width", "img_height", "img_image_name",
            "img_file_name", "licenses", "cat_id", "cat_name",
            "cat_supercategory", "errors", "ann_id", "ann_segmentation",
            "ann_image_id", "ann_category_id", "ann_area", "ann_bbox",
            "ann_iscrowd", "labels", "classifications",
            "augmentation_settings", "tile_settings", "False_positive">>

(***************************************************************************)
(* Tables: [columns |-> sequence of names, rows |-> sequence of functions  *)
(* from the column names to cells].                                        *)
(***************************************************************************)
EmptyTable == [columns |-> <<>>, rows |-> <<>>]

(* pd.DataFrame(list of dicts): the keys of the dicts, in `order`, are the *)
(* columns; a key a dict lacks is NaN in its row.                          *)
DataFrame(records, order) ==
    LET keys == UNION {DOMAIN records[i] : i \in 1..Len(records)}
        cols == SelectSeq(order, LAMBDA c : c \in keys)
    IN [columns |-> cols,
        rows |-> [i \in 1..Len(records) |->
                    [c \in Range(cols) |->
                        IF c \in DOMAIN records[i] THEN records[i][c] ELSE NaN]]]

FillNa(c, v) == IF IsNaN(c) THEN v ELSE c
FillNaTable(t, v) ==
    [t EXCEPT !.rows = [i \in 1..Len(t.rows) |->
                           [c \in Range(t.columns) |-> FillNa(t.rows[i][c], v)]]]

(* pd.concat(tables, axis=1): columns side by side, rows aligned by        *)
(* position; a table shorter than the longest contributes NaN.             *)
ConcatColumns(ts) ==
    LET n == IF Len(ts) = 0 THEN 0
             ELSE CHOOSE m \in {Len(ts[k].rows) : k \in 1..Len(ts)} :
                    \A k \in 1..Len(ts) : Len(ts[k].rows) <= m
        RECURSIVE Cols(_)
        Cols(k) == IF k = 0 THEN <<>> ELSE Cols(k - 1) \o ts[k].columns
        cols == Cols(Len(ts))
        Owner(c) == CHOOSE k \in 1..Len(ts) : c \in Range(ts[k].columns)
    IN [columns |-> cols,
        rows |-> [i \in 1..n |->
                    [c \in Range(cols) |->
                        IF i <= Len(ts[Owner(c)].rows)
                        THEN ts[Owner(c)].rows[i][c] ELSE NaN]]]

(* df.reindex(columns=labels, fill_value=fill). *)
Reindex(t, labels, fill) ==
    [columns |-> labels,
     rows |-> [i \in 1..Len(t.rows) |->
                 [c \in Range(labels) |->
                     IF c \in Range(t.columns) THEN t.rows[i][c] ELSE fill]]]

HasDuplicates(q) == \E i, j \in 1..Len(q) : i < j /\ q[i] = q[j]

(***************************************************************************)
(* VOC inputs.  A file is what ET.parse and the find() calls see of it:    *)
(* whether it is well-formed, the texts of size/width, size/height,        *)
(* filename and path, and its object elements; an object is the text of    *)
(* its name and the four texts of its bndbox (<<>>: no bndbox element).    *)
(***************************************************************************)
VocObjects ==
    {[name |-> "cat", bndbox |-> <<"10", "20", "110", "220">>],
     [name |-> "dog", bndbox |-> <<"10", "20", "110", "220">>],
     [name |-> "cat", bndbox |-> <<"5", "5", "3", "9">>],
     [name |-> "cat", bndbox |-> <<"10", "20", "x", "220">>],
     [name |-> "dog", bndbox |-> <<>>],
     [name |-> Missing, bndbox |-> <<"5", "5", "3", "9">>]}
VocFile(wf, w, p, os) ==
    [wellformed |-> wf, width |-> w, height |-> "100", filename |-> "a.jpg",
     path |-> p, objects |-> os]
(* the sample files: malformed XML, no size/width, a file without a path   *)
(* element, and files with up to maxObjs of the sample objects             *)
VocFiles(maxObjs) ==
    {VocFile(FALSE, "200", Missing, <<>>),
     VocFile(TRUE, Missing, Missing, <<>>),
     VocFile(TRUE, "200", Missing, <<>>)}
    \cup {VocFile(TRUE, "200", "/d/a.jpg", os) : os \in SeqsUpTo(VocObjects, maxObjs)}

ImgCols == <<"img_id", "img_width", "img_height", "img_image_name", "img_file_name">>
AnnCols == <<"ann_id", "ann_segmentation", "ann_bbox", "ann_area", "ann_image_id",
             "ann_category_id", "ann_category_name", "ann_iscrowd">>
CatCols == <<"cat_id", "cat_name", "cat_supercategory">>

(* ET.parse, then _parse_voc_image: what makes them raise. *)
VocImageRaises(f) ==
    \/ ~f.wellformed
    \/ ~IsIntText(f.width)
    \/ ~IsIntText(f.height)
    \/ f.filename = Missing

ParseVocImage(f, id) ==
    [img_id |-> IntC(id),
     img_width |-> IntC(IntOfText(f.width)),
     img_height |-> IntC(IntOfText(f.height)),
     img_image_name |-> StrC(f.filename),
     img_file_name |-> StrC(IF f.path # Missing THEN f.path ELSE "")]

(* `cat_name not in categories`, negated. *)
CategoryKnownNever(cats, cat_name) == FALSE
CategoryKnown(cats, cat_name) == cat_name \in DOMAIN cats

(* _parse_voc_annotation raises when bndbox or one of its four integers is absent. *)
VocAnnotationRaises(obj) ==
    \/ Len(obj.bndbox) # 4
    \/ \E k \in 1..Len(obj.bndbox) : ~IsIntText(obj.bndbox[k])

ParseVocAnnotationCorners(obj, imgId, annId, cats) ==
    LET b == [k \in 1..4 |-> IntOfText(obj.bndbox[k])]
    IN [ann_id |-> IntC(annId), ann_segmentation |-> ListC(<<>>),
        ann_bbox |-> ListC(b), ann_area |-> IntC(b[3] * b[4]),
        ann_image_id |-> IntC(imgId), ann_category_id |-> IntC(cats[obj.name]),
        ann_category_name |-> StrC(obj.name), ann_iscrowd |-> IntC(0)]
ParseVocAnnotationSwapped(obj, imgId, annId, cats) ==
    LET xmin == IntOfText(obj.bndbox[1])
        ymin == IntOfText(obj.bndbox[2])
        xmax == IntOfText(obj.bndbox[3])
        ymax == IntOfText(obj.bndbox[4])
    IN [ann_id |-> IntC(imgId), ann_segmentation |-> ListC(<<>>),
        ann_bbox |-> ListC(<<xmin, ymin, xmax - xmin, ymax - ymin>>),
        ann_area |-> IntC((xmax - xmin) * (ymax - ymin)),
        ann_image_id |-> IntC(imgId), ann_category_id |-> IntC(cats[obj.name]),
        ann_category_name |-> StrC(obj.name), ann_iscrowd |-> IntC(0)]
ParseVocAnnotationDangling(obj, imgId, annId, cats) ==
    LET xmin == IntOfText(obj.bndbox[1])
        ymin == IntOfText(obj.bndbox[2])
        xmax == IntOfText(obj.bndbox[3])
        ymax == IntOfText(obj.bndbox[4])
    IN [ann_id |-> IntC(annId), ann_segmentation |-> ListC(<<>>),
        ann_bbox |-> ListC(<<xmin, ymin, xmax - xmin, ymax - ymin>>),
        ann_area |-> IntC((xmax - xmin) * (ymax - ymin)),
        ann_image_id |-> IntC(annId), ann_category_id |-> IntC(cats[obj.name]),
        ann_category_name |-> StrC(obj.name), ann_iscrowd |-> IntC(0)]
ParseVocAnnotation(obj, imgId, annId, cats) ==
    LET xmin == IntOfText(obj.bndbox[1])
        ymin == IntOfText(obj.bndbox[2])
        xmax == IntOfText(obj.bndbox[3])
        ymax == IntOfText(obj.bndbox[4])
    IN [ann_id |-> IntC(annId), ann_segmentation |-> ListC(<<>>),
        ann_bbox |-> ListC(<<xmin, ymin, xmax - xmin, ymax - ymin>>),
        ann_area |-> IntC((xmax - xmin) * (ymax - ymin)),
        ann_image_id |-> IntC(imgId), ann_category_id |-> IntC(cats[obj.name]),
        ann_category_name |-> StrC(obj.name), ann_iscrowd |-> IntC(0)]

(* `except Exception: log; raise` (and no handler at all in Xml2df). *)
VocOnErrorSkip == "loop"
VocOnError == "raised"

(***************************************************************************)
(* The canonical-table assembler.                                          *)
(***************************************************************************)
HasColumn(t, col) == col \in Range(t.columns)
SetColumn(t, col, vals) ==
    [t EXCEPT !.rows = [i \in 1..Len(t.rows) |-> [t.rows[i] EXCEPT ![col] = vals[i]]]]
Column(t, col) == [i \in 1..Len(t.rows) |-> t.rows[i][col]]

(* .replace("", 0).fillna(0) on a width/height cell. *)
ZeroIfBlank(c) == IF IsNaN(c) \/ c = StrC("") THEN IntC(0) ELSE c
(* pd.to_numeric(...).fillna(0).astype(int) on a cat_id cell. *)
IsNumeric(c) == IsInt(c) \/ IsNaN(c) \/ (IsStr(c) /\ IsIntText(c.str))
ToNumericInt(c) ==
    IF IsInt(c) THEN c
    ELSE IF IsNaN(c) THEN IntC(0)
    ELSE IntC(IntOfText(c.str))

CoerceSizes(images_df) ==
    LET w == IF HasColumn(images_df, "img_width")
             THEN SetColumn(images_df, "img_width",
                    [i \in 1..Len(images_df.rows) |->
                        ZeroIfBlank(images_df.rows[i]["img_width"])])
             ELSE images_df
    IN IF HasColumn(w, "img_height")
       THEN SetColumn(w, "img_height",
              [i \in 1..Len(w.rows) |-> ZeroIfBlank(w.rows[i]["img_height"])])
       ELSE w

(* AnnotationConverter._prepare_dataframe: what makes it raise. *)
PrepareRaises(images_df, annotations_df, categories_df) ==
    \/ ~HasColumn(categories_df, "cat_id")
    \/ \E i \in 1..Len(categories_df.rows) : ~IsNumeric(categories_df.rows[i]["cat_id"])
    \/ ~HasColumn(annotations_df, "ann_category_id")
    \/ HasDuplicates(images_df.columns \o annotations_df.columns \o categories_df.columns)

PrepareDataframeNoReindex(images_df, annotations_df, categories_df) ==
    LET img == FillNaTable(CoerceSizes(images_df), StrC(""))
        cat == SetColumn(categories_df, "cat_id",
                 [i \in 1..Len(categories_df.rows) |->
                     ToNumericInt(categories_df.rows[i]["cat_id"])])
        ann == FillNaTable(
                 SetColumn(annotations_df, "ann_category_id",
                   [i \in 1..Len(annotations_df.rows) |->
                       AsStr(annotations_df.rows[i]["ann_category_id"])]),
                 StrC(""))
    IN ConcatColumns(<<img, ann, cat>>)
PrepareDataframe(images_df, annotations_df, categories_df) ==
    LET img == FillNaTable(CoerceSizes(images_df), StrC(""))
        cat == SetColumn(categories_df, "cat_id",
                 [i \in 1..Len(categories_df.rows) |->
                     ToNumericInt(categories_df.rows[i]["cat_id"])])
        ann == FillNaTable(
                 SetColumn(annotations_df, "ann_category_id",
                   [i \in 1..Len(annotations_df.rows) |->
                       AsStr(annotations_df.rows[i]["ann_category_id"])]),
                 StrC(""))
    IN Reindex(ConcatColumns(<<img, ann, cat>>), schema, StrC(""))

(* The tail of Xml2df.voc_to_dataframe (cat_id is kept as a string there). *)
Xml2dfPrepareRaises(images_df, annotations_df, categories_df) ==
    \/ ~HasColumn(categories_df, "cat_id")
    \/ ~HasColumn(annotations_df, "ann_category_id")
    \/ ~HasColumn(images_df, "img_width")
    \/ ~HasColumn(images_df, "img_height")
    \/ HasDuplicates(images_df.columns \o annotations_df.columns \o categories_df.columns)

Xml2dfPrepare(images_df, annotations_df, categories_df) ==
    LET cat == SetColumn(categories_df, "cat_id",
                 [i \in 1..Len(categories_df.rows) |->
                     AsStr(categories_df.rows[i]["cat_id"])])
        ann == FillNaTable(
                 SetColumn(annotations_df, "ann_category_id",
                   [i \in 1..Len(annotations_df.rows) |->
                       AsStr(annotations_df.rows[i]["ann_category_id"])]),
                 StrC(""))
        img == CoerceSizes(FillNaTable(images_df, StrC("")))
    IN Reindex(ConcatColumns(<<img, ann, cat>>), schema, StrC(""))

(***************************************************************************)
(* The VOC importers: AnnotationConverter.voc_to_dataframe and             *)
(* Xml2df.voc_to_dataframe run the same loop.                              *)
(***************************************************************************)
VocImporters == {"AnnotationConverter.voc_to_dataframe", "Xml2df.voc_to_dataframe"}

(* for xml_file in xml_files: ET.parse, image record, root.findall('object') *)
VocParseFile ==
    /\ importer \in VocImporters
    /\ pc = "loop"
    /\ Len(xml_files) < MaxFiles
    /\ \E f \in VocFiles(MaxAnn - annotation_id) :
        /\ xml_files' = Append(xml_files, f)
        /\ IF VocImageRaises(f)
           THEN /\ pc' = VocOnError
                /\ UNCHANGED <<root, objs, img_data>>
           ELSE /\ pc' = "objects"
                /\ root' = <<f>>
                /\ objs' = f.objects
                /\ img_data' = Append(img_data, ParseVocImage(f, img_id))
    /\ UNCHANGED <<importer, ann_data, cat_data, img_id, cat_id, annotation_id,
                   categories, json_files, all_images, all_categories,
                   all_annotations, df>>
    /\ UNCHANGED <<expVars, sniffVars, orgVars>>

(* cat_id += 1 after a new name was registered *)
NextCatIdStuck(id) == id
NextCatId(id) == id + 1

(* one iteration of `for obj in root.findall('object')` *)
VocObject ==
    /\ importer \in VocImporters
    /\ pc = "objects"
    /\ objs # <<>>
    /\ LET obj == Head(objs)
           known == CategoryKnown(categories, obj.name)
           cats == IF known THEN categories ELSE (obj.name :> cat_id) @@ categories
       IN IF obj.name = Missing
          THEN /\ pc' = VocOnError
               /\ root' = <<>>
               /\ objs' = <<>>
               /\ UNCHANGED <<categories, cat_data, cat_id, ann_data, annotation_id>>
          ELSE /\ categories' = cats
               /\ cat_data' = IF known THEN cat_data
                              ELSE Append(cat_data, [cat_id |-> IntC(cat_id),
                                                     cat_name |-> StrC(obj.name)])
               /\ cat_id' = IF known THEN cat_id ELSE NextCatId(cat_id)
               /\ IF VocAnnotationRaises(obj)
                  THEN /\ pc' = VocOnError
                       /\ root' = <<>>
                       /\ objs' = <<>>
                       /\ UNCHANGED <<ann_data, annotation_id>>
                  ELSE /\ ann_data' = Append(ann_data,
                              ParseVocAnnotation(obj, img_id, annotation_id, cats))
                       /\ annotation_id' = annotation_id + 1
                       /\ objs' = Tail(objs)
                       /\ UNCHANGED <<pc, root>>
    /\ UNCHANGED <<importer, xml_files, img_data, img_id, json_files, all_images,
                   all_categories, all_annotations, df>>
    /\ UNCHANGED <<expVars, sniffVars, orgVars>>

(* img_id += 1 at the end of a file's iteration *)
VocEndFile ==
    /\ importer \in VocImporters
    /\ pc = "objects"
    /\ objs = <<>>
    /\ img_id' = img_id + 1
    /\ root' = <<>>
    /\ pc' = "loop"
    /\ UNCHANGED <<importer, xml_files, objs, img_data, ann_data, cat_data, cat_id,
                   annotation_id, categories, json_files, all_images,
                   all_categories, all_annotations, df>>
    /\ UNCHANGED <<expVars, sniffVars, orgVars>>

(* after the loop: the three DataFrames and the assembler *)
VocReturn ==
    /\ importer \in VocImporters
    /\ pc = "loop"
    /\ LET images_df == DataFrame(img_data, ImgCols)
           annotations_df == DataFrame(ann_data, AnnCols)
           categories_df == DataFrame(cat_data, CatCols)
       IN IF importer = "AnnotationConverter.voc_to_dataframe"
          THEN IF Len(xml_files) = 0   \* img_df is unbound
                  \/ PrepareRaises(images_df, annotations_df, categories_df)
               THEN pc' = "raised" /\ df' = <<>>
               ELSE /\ pc' = "returned"
                    /\ df' = <<PrepareDataframe(images_df, annotations_df, categories_df)>>
          ELSE IF Xml2dfPrepareRaises(images_df, annotations_df, categories_df)
               THEN pc' = "raised" /\ df' = <<>>
               ELSE /\ pc' = "returned"
                    /\ df' = <<Xml2dfPrepare(images_df, annotations_df, categories_df)>>
    /\ UNCHANGED <<importer, xml_files, root, objs, img_data, ann_data, cat_data,
                   img_id, cat_id, annotation_id, categories, json_files,
                   all_images, all_categories, all_annotations>>
    /\ UNCHANGED <<expVars, sniffVars, orgVars>>

(***************************************************************************)
(* COCO inputs.  A document is what json.load returns for a file: whether  *)
(* it parses, its info dict, and its licenses, errors, images, categories  *)
(* and annotations lists (keys: the top-level keys the document has).      *)
(***************************************************************************)
CocoImage(id) ==
    [id |-> IntC(id), width |-> IntC(200), height |-> IntC(100),
     file_name |-> StrC("a.jpg")]
CocoCategory(id, name) ==
    [id |-> IntC(id), name |-> StrC(name), supercategory |-> StrC("none")]
CocoAnnotation(id, img, cat) ==
    [id |-> IntC(id), image_id |-> IntC(img), category_id |-> IntC(cat),
     bbox |-> ListC(<<10, 20, 100, 200>>), area |-> IntC(20000),
     segmentation |-> ListC(<<>>), iscrowd |-> IntC(0)]
NoDict == [k \in {} |-> NaN]
CocoDoc(ok, ks, inf, lic, imgs, cats, anns) ==
    [parses |-> ok, keys |-> ks, info |-> inf, licenses |-> lic,
     images |-> imgs, categories |-> cats, annotations |-> anns]
CocoKeys == {"images", "categories", "annotations"}
CocoDocs ==
    {CocoDoc(TRUE, CocoKeys, NoDict, <<>>,
             <<CocoImage(0)>>, <<CocoCategory(0, "cat")>>, <<CocoAnnotation(0, 0, 0)>>),
     CocoDoc(TRUE, CocoKeys, NoDict, <<>>,
             <<[id |-> IntC(0), file_name |-> StrC("b.jpg")]>>,
             <<CocoCategory(0, "dog")>>,
             <<CocoAnnotation(0, 0, 0), CocoAnnotation(1, 0, 0)>>),
     CocoDoc(TRUE, CocoKeys, NoDict, <<>>,
             <<CocoImage(1)>>,
             <<CocoCategory(1, "dog"), [id |-> IntC(2), name |-> StrC("bird")]>>,
             <<>>),
     CocoDoc(TRUE, CocoKeys \cup {"info", "licenses"},
             [url |-> StrC("u")], <<[id |-> IntC(1), url |-> StrC("v")]>>,
             <<CocoImage(0)>>, <<CocoCategory(0, "cat")>>, <<CocoAnnotation(0, 0, 0)>>),
     CocoDoc(TRUE, CocoKeys \cup {"info"},
             [year |-> IntC(2024)], <<>>,
             <<CocoImage(0), CocoImage(1)>>, <<CocoCategory(1, "cat")>>,
             <<CocoAnnotation(5, 1, 1)>>),
     CocoDoc(TRUE, {"images", "annotations"}, NoDict, <<>>,
             <<CocoImage(0)>>, <<>>, <<CocoAnnotation(0, 0, 0)>>),
     CocoDoc(FALSE, {}, NoDict, <<>>, <<>>, <<>>, <<>>)}

(* DataFrame.add_prefix on the keys of one record *)
AddPrefix(r, prefix) ==
    [c \in {prefix \o k : k \in DOMAIN r} |->
        r[CHOOSE k \in DOMAIN r : prefix \o k = c]]
(* pd.json_normalize(list).add_prefix(prefix) *)
JsonNormalize(list, prefix, order) ==
    DataFrame([i \in 1..Len(list) |-> AddPrefix(list[i], prefix)], order)

(* pd.concat(tables, ignore_index=True): rows one after the other *)
RECURSIVE AllRowsNewestFirst(_)
AllRowsNewestFirst(ts) ==
    IF ts = <<>> THEN <<>> ELSE AllRowsNewestFirst(Tail(ts)) \o Head(ts).rows
RECURSIVE AllRows(_)
AllRows(ts) == IF ts = <<>> THEN <<>> ELSE Head(ts).rows \o AllRows(Tail(ts))
RECURSIVE AllColumns(_)
AllColumns(ts) ==
    IF ts = <<>> THEN {} ELSE Range(Head(ts).columns) \cup AllColumns(Tail(ts))
ConcatRows(ts, order) ==
    LET rows == AllRows(ts)
        cols == SelectSeq(order, LAMBDA c : c \in AllColumns(ts))
    IN [columns |-> cols,
        rows |-> [i \in 1..Len(rows) |->
                    [c \in Range(cols) |->
                        IF c \in DOMAIN rows[i] THEN rows[i][c] ELSE NaN]]]

InfoCols == <<"year", "url">>
LicenseCols == <<"id", "url", "name">>

(* json.load, then the three subscripts annotations_json[...] *)
CocoLoadRaises(d) == ~d.parses \/ ~(CocoKeys \subseteq d.keys)

(***************************************************************************)
(* AnnotationConverter.coco_to_dataframe: every .json file of the folder.  *)
(***************************************************************************)
CocoLoadFile ==
    /\ importer = "AnnotationConverter.coco_to_dataframe"
    /\ pc = "loop"
    /\ Len(json_files) < MaxFiles
    /\ \E d \in CocoDocs :
        /\ json_files' = Append(json_files, d)
        /\ IF CocoLoadRaises(d)
           THEN /\ pc' = "raised"
                /\ UNCHANGED <<all_images, all_categories, all_annotations>>
           ELSE /\ all_images' = Append(all_images, JsonNormalize(d.images, "img_", ImgCols))
                /\ all_categories' =
                       Append(all_categories, JsonNormalize(d.categories, "cat_", CatCols))
                /\ all_annotations' =
                       Append(all_annotations, JsonNormalize(d.annotations, "ann_", AnnCols))
                /\ UNCHANGED pc
    /\ UNCHANGED <<importer, xml_files, root, objs, img_data, ann_data, cat_data,
                   img_id, cat_id, annotation_id, categories, df>>
    /\ UNCHANGED <<expVars, sniffVars, orgVars>>

CocoReturn ==
    /\ importer = "AnnotationConverter.coco_to_dataframe"
    /\ pc = "loop"
    /\ LET images_df == ConcatRows(all_images, ImgCols)
           categories_df == ConcatRows(all_categories, CatCols)
           annotations_df == ConcatRows(all_annotations, AnnCols)
       IN IF Len(json_files) = 0    \* pd.concat of an empty list
             \/ PrepareRaises(images_df, annotations_df, categories_df)
          THEN pc' = "raised" /\ df' = <<>>
          ELSE /\ pc' = "returned"
               /\ df' = <<PrepareDataframe(images_df, annotations_df, categories_df)>>
    /\ UNCHANGED <<importer, xml_files, root, objs, img_data, ann_data, cat_data,
                   img_id, cat_id, annotation_id, categories, json_files,
                   all_images, all_categories, all_annotations>>
    /\ UNCHANGED <<expVars, sniffVars, orgVars>>

(***************************************************************************)
(* Coco2df.coco_to_dataframe: one file.                                    *)
(***************************************************************************)
Coco2dfRaises(d) ==
    \/ CocoLoadRaises(d)
    \/ d.categories = <<>>         \* categories["cat_id"]
    \/ d.annotations = <<>>        \* annotations["ann_category_id"]
    \/ HasDuplicates(SelectSeq(InfoCols, LAMBDA c : c \in DOMAIN d.info)
                     \o JsonNormalize(d.licenses, "", LicenseCols).columns)

(* df["annotated"] = 1 *)
AddColumn(t, col, v) ==
    [columns |-> Append(t.columns, col),
     rows |-> [i \in 1..Len(t.rows) |->
                 [c \in Range(t.columns) \cup {col} |->
                     IF c = col THEN v ELSE t.rows[i][c]]]]

Coco2dfTable(d) ==
    LET info == DataFrame(<<d.info>>, InfoCols)
        images == JsonNormalize(d.images, "img_", ImgCols)
        cats0 == JsonNormalize(d.categories, "cat_", CatCols)
        categories_ == SetColumn(cats0, "cat_id",
                         [i \in 1..Len(cats0.rows) |-> AsStr(cats0.rows[i]["cat_id"])])
        license == JsonNormalize(d.licenses, "", LicenseCols)
        anns0 == JsonNormalize(d.annotations, "ann_", AnnCols)
        annotations == SetColumn(anns0, "ann_category_id",
                         [i \in 1..Len(anns0.rows) |->
                             AsStr(anns0.rows[i]["ann_category_id"])])
        joined == ConcatColumns(<<info, images, categories_, license, annotations>>)
        filled == CoerceSizes(FillNaTable(Reindex(joined, schema, StrC("")), StrC("")))
    IN AddColumn(filled, "annotated", IntC(1))

Coco2dfRun ==
    /\ importer = "Coco2df.coco_to_dataframe"
    /\ pc = "loop"
    /\ \E d \in CocoDocs :
        /\ json_files' = <<d>>
        /\ IF Coco2dfRaises(d)
           THEN pc' = "raised" /\ df' = <<>>
           ELSE pc' = "returned" /\ df' = <<Coco2dfTable(d)>>
    /\ UNCHANGED <<importer, xml_files, root, objs, img_data, ann_data, cat_data,
                   img_id, cat_id, annotation_id, categories,
                   all_images, all_categories, all_annotations>>
    /\ UNCHANGED <<expVars, sniffVars, orgVars>>

(***************************************************************************)
(* Idle values of the machines a specification does not run.               *)
(***************************************************************************)
NoDictOfNames == [k \in {} |-> 0]
ImportIdle ==
    /\ importer = "none" /\ pc = "idle"
    /\ xml_files = <<>> /\ root = <<>> /\ objs = <<>>
    /\ img_data = <<>> /\ ann_data = <<>> /\ cat_data = <<>>
    /\ img_id = 0 /\ cat_id = 0 /\ annotation_id = 0
    /\ categories = NoDictOfNames
    /\ json_files = <<>>
    /\ all_images = <<>> /\ all_categories = <<>> /\ all_annotations = <<>>
    /\ df = <<>>
ExportIdle ==
    /\ exporter = "none" /\ exp_pc = "idle" /\ dataframe = <<>>
    /\ output_path = "none" /\ exp_df = <<>> /\ exp_i = 0
    /\ df_outputI = <<>> /\ df_outputA = <<>> /\ df_outputC = <<>>
    /\ outfile = <<>>
SniffIdle == sniff_file = <<>> /\ sniff_result = "idle"
OrganizeIdle ==
    /\ org_pc = "idle" /\ walked = <<>> /\ fs_images = <<>> /\ fs_annotations = <<>>
    /\ identified_format = "None"
    /\ num_images = 0 /\ num_annotations = 0

Importers == VocImporters \cup {"AnnotationConverter.coco_to_dataframe",
                                "Coco2df.coco_to_dataframe"}
InitImport ==
    /\ importer \in Importers
    /\ pc = "loop"
    /\ xml_files = <<>> /\ root = <<>> /\ objs = <<>>
    /\ img_data = <<>> /\ ann_data = <<>> /\ cat_data = <<>>
    /\ img_id = 0 /\ cat_id = 0 /\ annotation_id = 0
    /\ categories = NoDictOfNames
    /\ json_files = <<>>
    /\ all_images = <<>> /\ all_categories = <<>> /\ all_annotations = <<>>
    /\ df = <<>>
    /\ ExportIdle /\ SniffIdle /\ OrganizeIdle
NextImport ==
    \/ VocParseFile \/ VocObject \/ VocEndFile \/ VocReturn
    \/ CocoLoadFile \/ CocoReturn \/ Coco2dfRun
SpecImport == InitImport /\ [][NextImport]_vars

(***************************************************************************)
(* The COCO exporter: AnnotationConverter.dataframe_to_bina_coco and       *)
(* Df2coco.dataframe_to_bina_coco.                                         *)
(***************************************************************************)
Exporters == {"AnnotationConverter.dataframe_to_bina_coco",
              "Df2coco.dataframe_to_bina_coco"}

(* the regular expression ^\s*$ on the sample texts *)
WhitespaceTexts == {"", " ", "  "}
(* df.replace(r"^\s*$", np.nan, regex=True) on one cell *)
BlankToNaN(c) == IF IsStr(c) /\ c.str \in WhitespaceTexts THEN NaN ELSE c

(* what the first statements leave in df: the copy with blank strings as   *)
(* NaN and ann_iscrowd filled with 0                                       *)
ExportCopy(table) ==
    [i \in 1..Len(table) |->
        [c \in DOMAIN table[i] |->
            IF c = "ann_iscrowd" THEN FillNa(BlankToNaN(table[i][c]), IntC(0))
            ELSE BlankToNaN(table[i][c])]]

(* int(x) raises for NaN, for a list and for a text that is no integer numeral *)
IntRaises(c) == ~(IsInt(c) \/ (IsStr(c) /\ IsIntText(c.str)))
(* int(x); where int(x) raises the record is never built, and x stands for it *)
ToInt(c) == IF IsInt(c) THEN c
            ELSE IF IntRaises(c) THEN c
            ELSE IntC(IntOfText(c.str))

(* the image, category and annotation record of row r *)
ImageRaises(ex, r) ==
    ex = "AnnotationConverter.dataframe_to_bina_coco" /\ IntRaises(r["img_id"])
ImageRecord(ex, r) ==
    [id |-> IF ex = "AnnotationConverter.dataframe_to_bina_coco"
            THEN ToInt(r["img_id"]) ELSE r["img_id"],
     width |-> r["img_width"],
     height |-> r["img_height"],
     image_name |-> r["img_file_name"],
     file_name |-> r["img_file_name"]]

CategoryRaises(ex, r) == IntRaises(r["cat_id"])
CategoryRecord(ex, r) ==
    [id |-> ToInt(r["cat_id"]), name |-> r["cat_name"],
     supercategory |-> r["cat_supercategory"]]

AnnotationRaisesUnchecked(ex, r) ==
    /\ ex = "AnnotationConverter.dataframe_to_bina_coco"
    /\ IntRaises(r["ann_id"]) \/ IntRaises(r["ann_image_id"])
AnnotationRaises(ex, r) ==
    \/ IntRaises(r["ann_category_id"])
    \/ /\ ex = "AnnotationConverter.dataframe_to_bina_coco"
       /\ IntRaises(r["ann_id"]) \/ IntRaises(r["ann_image_id"])
AnnotationRecord(ex, r) ==
    LET ac == ex = "AnnotationConverter.dataframe_to_bina_coco"
    IN [id |-> IF ac THEN ToInt(r["ann_id"]) ELSE r["ann_id"],
        segmentation |-> r["ann_segmentation"],
        image_id |-> IF ac THEN ToInt(r["ann_image_id"]) ELSE r["ann_image_id"],
        category_id |-> ToInt(r["ann_category_id"]),
        area |-> r["ann_area"],
        bbox |-> r["ann_bbox"],
        iscrowd |-> r["ann_iscrowd"]]

(* df_outputC.append(pd.DataFrame([categories])) *)
EmitCategoryOnce(out, rec) ==
    IF \E k \in 1..Len(out) : out[k].id = rec.id THEN out ELSE Append(out, rec)
EmitCategory(out, rec) == Append(out, rec)

(* to_json / json.loads / json.dump of one value: NaN is written as null *)
Null == [null |-> TRUE]
JsonCell(c) == IF IsNaN(c) THEN Null ELSE c
JsonRecords(out) ==
    [k \in 1..Len(out) |-> [f \in DOMAIN out[k] |-> JsonCell(out[k][f])]]
(* the document json.dump writes *)
CocoDocument(I, C, A) ==
    [info |-> NoDict, images |-> JsonRecords(I), categories |-> JsonRecords(C),
     licenses |-> <<>>, errors |-> <<>>, annotations |-> JsonRecords(A),
     labels |-> <<>>, classifications |-> <<>>, augmentation_settings |-> NoDict,
     tile_settings |-> NoDict, False_positive |-> NoDict]

(* the caller's table after the first statements: they assign to df, the   *)
(* deep copy, and the table passed in keeps its cells                      *)
CallerTableAliased(table, copy) == copy
CallerTable(table, copy) == table

(* df = dataframe.copy(deep=True) ... df["ann_iscrowd"].fillna(0) *)
ExportStart ==
    /\ exporter \in Exporters
    /\ exp_pc = "start"
    /\ exp_df' = ExportCopy(dataframe)
    /\ dataframe' = CallerTable(dataframe, ExportCopy(dataframe))
    /\ exp_pc' = IF /\ exporter = "Df2coco.dataframe_to_bina_coco"
                    /\ \E i \in 1..Len(dataframe) :       \* pd.to_numeric(df["cat_id"])
                          ~IsNumeric(BlankToNaN(dataframe[i]["cat_id"]))
                 THEN "raised" ELSE "rows"
    /\ UNCHANGED <<exporter, output_path, exp_i, df_outputI, df_outputA,
                   df_outputC, outfile>>
    /\ UNCHANGED <<impVars, sniffVars, orgVars>>

(* one iteration of `for i in range(0, df.shape[0])` *)
ExportRow ==
    /\ exporter \in Exporters
    /\ exp_pc = "rows"
    /\ exp_i < Len(exp_df)
    /\ LET r == exp_df[exp_i + 1]
           hasI == ~IsNaN(r["img_id"])
           hasC == ~IsNaN(r["cat_id"])
           hasA == ~IsNaN(r["ann_id"])
           failI == hasI /\ ImageRaises(exporter, r)
           failC == hasC /\ CategoryRaises(exporter, r)
           failA == hasA /\ AnnotationRaises(exporter, r)
       IN /\ df_outputI' = IF hasI /\ ~failI
                           THEN Append(df_outputI, ImageRecord(exporter, r))
                           ELSE df_outputI
          /\ df_outputC' = IF hasC /\ ~failI /\ ~failC
                           THEN EmitCategory(df_outputC, CategoryRecord(exporter, r))
                           ELSE df_outputC
          /\ df_outputA' = IF hasA /\ ~failI /\ ~failC /\ ~failA
                           THEN Append(df_outputA, AnnotationRecord(exporter, r))
                           ELSE df_outputA
          /\ IF failI \/ failC \/ failA
             THEN exp_pc' = "raised" /\ UNCHANGED exp_i
             ELSE exp_i' = exp_i + 1 /\ UNCHANGED exp_pc
    /\ UNCHANGED <<exporter, dataframe, output_path, exp_df, outfile>>
    /\ UNCHANGED <<impVars, sniffVars, orgVars>>

(* pd.concat of the three lists, to_json, json.dump to output_path *)
ExportWrite ==
    /\ exporter \in Exporters
    /\ exp_pc = "rows"
    /\ exp_i = Len(exp_df)
    /\ IF df_outputI = <<>> \/ df_outputA = <<>> \/ df_outputC = <<>>
       THEN exp_pc' = "raised" /\ UNCHANGED outfile  \* No objects to concatenate
       ELSE /\ exp_pc' = "written"
            /\ outfile' = [outfile EXCEPT ![output_path] =
                              <<CocoDocument(df_outputI, df_outputC, df_outputA)>>]
    /\ UNCHANGED <<exporter, dataframe, output_path, exp_df, exp_i, df_outputI,
                   df_outputA, df_outputC>>
    /\ UNCHANGED <<impVars, sniffVars, orgVars>>

(***************************************************************************)
(* Tables given to the exporter: up to MaxRows of the sample rows.         *)
(***************************************************************************)
BlankImage ==
    [img_id |-> StrC(""), img_width |-> StrC(""), img_height |-> StrC(""),
     img_image_name |-> StrC(""), img_file_name |-> StrC("")]
SomeImage(id) ==
    [img_id |-> id, img_width |-> IntC(200), img_height |-> IntC(100),
     img_image_name |-> StrC("a.jpg"), img_file_name |-> StrC("/d/a.jpg")]
BlankCategory ==
    [cat_id |-> NaN, cat_name |-> NaN, cat_supercategory |-> StrC("")]
SomeCategory(id, name) ==
    [cat_id |-> id, cat_name |-> StrC(name), cat_supercategory |-> StrC("")]
BlankAnnotation ==
    [ann_id |-> StrC(" "), ann_segmentation |-> StrC(""), ann_image_id |-> StrC(""),
     ann_category_id |-> StrC(""), ann_area |-> StrC(""), ann_bbox |-> StrC(""),
     ann_iscrowd |-> StrC("")]
SomeAnnotation(id, cat, area, bbox) ==
    [ann_id |-> IntC(id), ann_segmentation |-> ListC(<<>>), ann_image_id |-> IntC(0),
     ann_category_id |-> cat, ann_area |-> area, ann_bbox |-> bbox,
     ann_iscrowd |-> NaN]
GoodBox == ListC(<<10, 20, 100, 200>>)
ExportRows ==
    {SomeImage(IntC(0)) @@ SomeCategory(IntC(0), "cat")
        @@ SomeAnnotation(0, StrC("0"), IntC(20000), GoodBox),
     BlankImage @@ BlankCategory @@ SomeAnnotation(1, StrC("0"), IntC(20000), GoodBox),
     BlankImage @@ BlankCategory @@ SomeAnnotation(2, StrC("cat"), IntC(20000), GoodBox),
     BlankImage @@ BlankCategory @@ SomeAnnotation(3, StrC("0"), StrC("big"), StrC("wide")),
     BlankImage @@ BlankCategory @@ SomeAnnotation(4, StrC(""), IntC(20000), GoodBox),
     BlankImage @@ BlankCategory
        @@ [BlankAnnotation EXCEPT !.ann_category_id = StrC("cat")],
     SomeImage(IntC(1)) @@ SomeCategory(StrC("0"), "dog") @@ BlankAnnotation,
     SomeImage(IntC(0)) @@ SomeCategory(StrC("c1"), "dog") @@ BlankAnnotation,
     SomeImage(StrC("i1")) @@ BlankCategory @@ BlankAnnotation,
     BlankImage @@ BlankCategory @@ BlankAnnotation}

Paths == {"out1.json", "out2.json"}
(* a document that is at output_path before the export *)
OldDocument == [CocoDocument(<<>>, <<>>, <<>>) EXCEPT !.licenses = <<StrC("old")>>]

InitExport ==
    /\ exporter \in Exporters
    /\ exp_pc = "start"
    /\ dataframe \in SeqsUpTo(ExportRows, MaxRows)
    /\ output_path = "out1.json"
    /\ outfile \in {[p \in Paths |-> <<>>],
                    [p \in Paths |-> IF p = "out1.json" THEN <<OldDocument>> ELSE <<>>]}
    /\ exp_df = <<>> /\ exp_i = 0
    /\ df_outputI = <<>> /\ df_outputA = <<>> /\ df_outputC = <<>>
    /\ ImportIdle /\ SniffIdle /\ OrganizeIdle
NextExport == ExportStart \/ ExportRow \/ ExportWrite
SpecExport == InitExport /\ [][NextExport]_vars

(***************************************************************************)
(* Two exports of one table: after the first call has written out1.json,   *)
(* the caller passes the same table again with the other output path.      *)
(***************************************************************************)
ExportAgain ==
    /\ exporter \in Exporters
    /\ exp_pc = "written"
    /\ output_path = "out1.json"
    /\ output_path' = "out2.json"
    /\ exp_pc' = "start"
    /\ exp_df' = <<>> /\ exp_i' = 0
    /\ df_outputI' = <<>> /\ df_outputA' = <<>> /\ df_outputC' = <<>>
    /\ UNCHANGED <<exporter, dataframe, outfile>>
    /\ UNCHANGED <<impVars, sniffVars, orgVars>>
NextReexport == ExportStart \/ ExportRow \/ ExportWrite \/ ExportAgain
SpecReexport == InitExport /\ [][NextReexport]_vars

(***************************************************************************)
(* The usage at the end of AnnotationConverter.py: the table returned by   *)
(* coco_to_dataframe is passed to dataframe_to_bina_coco.                  *)
(***************************************************************************)
ExportImported ==
    /\ importer = "AnnotationConverter.coco_to_dataframe"
    /\ pc = "returned"
    /\ exp_pc = "idle"
    /\ exporter' = "AnnotationConverter.dataframe_to_bina_coco"
    /\ exp_pc' = "start"
    /\ dataframe' = df[1].rows
    /\ output_path' = "out1.json"
    /\ outfile' = [p \in Paths |-> <<>>]
    /\ UNCHANGED <<exp_df, exp_i, df_outputI, df_outputA, df_outputC>>
    /\ UNCHANGED <<impVars, sniffVars, orgVars>>
InitCocoPipeline ==
    /\ InitImport
    /\ importer = "AnnotationConverter.coco_to_dataframe"
NextCocoPipeline ==
    \/ CocoLoadFile \/ CocoReturn \/ ExportImported
    \/ ExportStart \/ ExportRow \/ ExportWrite
SpecCocoPipeline == InitCocoPipeline /\ [][NextCocoPipeline]_vars

(***************************************************************************)
(* The format sniffers of AnnotationExplorer.                              *)
(***************************************************************************)
Digits == {"0", "1", "2", "3", "4", "5", "6", "7", "8", "9"}
(* str.isdigit() on a text given as its characters *)
IsDigitText(t) == Len(t) > 0 /\ \A k \in 1..Len(t) : t[k] \in Digits
(* part.replace('.', '', 1): the text without its first '.' *)
RemoveFirstDot(t) ==
    IF \E k \in 1..Len(t) : t[k] = "."
    THEN LET d == CHOOSE k \in 1..Len(t) :
                     t[k] = "." /\ \A j \in 1..(k - 1) : t[j] # "."
         IN SubSeq(t, 1, d - 1) \o SubSeq(t, d + 1, Len(t))
    ELSE t
YoloFields == 5
(* len(parts) == 5 and all(part.replace('.', '', 1).isdigit() for part in parts) *)
IsYoloLine(parts) ==
    /\ Len(parts) = YoloFields
    /\ \A k \in 1..Len(parts) : IsDigitText(RemoveFirstDot(parts[k]))
(* the loop over the lines: the first line that passes returns True *)
RECURSIVE YoloLoop(_)
YoloLoop(lines) ==
    IF lines = <<>> THEN FALSE
    ELSE IF IsYoloLine(Head(lines)) THEN TRUE
    ELSE YoloLoop(Tail(lines))
(* _is_yolo: any exception while reading gives False *)
IsYolo(f) == IF ~f.decodable THEN "False"
             ELSE IF YoloLoop(f.lines) THEN "True" ELSE "False"

(* _is_coco: `key in data` is a key test on a dict, an element test on a   *)
(* list, a substring test on a string and a TypeError on anything else;    *)
(* only json.JSONDecodeError is caught                                     *)
IsCoco(j) ==
    IF j.kind = "invalid" THEN "False"
    ELSE IF j.kind \in {"number", "null", "true"} THEN "TypeError"
    ELSE IF {"annotations", "images", "categories"} \subseteq j.has THEN "True"
    ELSE "False"

(* _is_pascal_voc *)
IsPascalVoc(x) ==
    IF ~x.wellformed THEN "False"
    ELSE IF x.tag = "annotation" /\ x.hasObject THEN "True"
    ELSE "False"

(* Sample file contents.  A text file is its lines, a line the fields      *)
(* line.strip().split() gives, a field its characters.                     *)
Fields == {<<"7">>, <<"0", ".", "5">>, <<".">>, <<"1", ".", "2", ".", "3">>,
           <<"-", "1">>, <<"c", "a", "t">>}
LineOf(n, t) == [k \in 1..n |-> IF k = n THEN t ELSE <<"0", ".", "5">>]
SampleLines == {LineOf(n, t) : n \in 0..(YoloFields + 1), t \in Fields}
TxtFiles ==
    {[ext |-> ".txt", decodable |-> TRUE, lines |-> ls] :
        ls \in SeqsUpTo(SampleLines, MaxLines)}
    \cup {[ext |-> ".txt", decodable |-> FALSE, lines |-> <<>>]}
(* a JSON file: the kind of its top-level value, and which of the words    *)
(* it has as keys (object), as elements (array) or as substrings (string)  *)
JsonWords == {"annotations", "images", "categories", "info"}
JsonFiles ==
    {[ext |-> ".json", kind |-> k, has |-> h] :
        k \in {"object", "array", "string"}, h \in SUBSET JsonWords}
    \cup {[ext |-> ".json", kind |-> k, has |-> {}] :
            k \in {"number", "null", "true", "invalid"}}
XmlFiles ==
    {[ext |-> ".xml", wellformed |-> w, tag |-> t, hasObject |-> o] :
        w \in BOOLEAN, t \in {"annotation", "html"}, o \in BOOLEAN}

SniffYolo ==
    /\ sniff_result = "pending"
    /\ sniff_file[1].ext = ".txt"
    /\ sniff_result' = IsYolo(sniff_file[1])
    /\ UNCHANGED <<sniff_file, impVars, expVars, orgVars>>
SniffCoco ==
    /\ sniff_result = "pending"
    /\ sniff_file[1].ext = ".json"
    /\ sniff_result' = IsCoco(sniff_file[1])
    /\ UNCHANGED <<sniff_file, impVars, expVars, orgVars>>
SniffPascalVoc ==
    /\ sniff_result = "pending"
    /\ sniff_file[1].ext = ".xml"
    /\ sniff_result' = IsPascalVoc(sniff_file[1])
    /\ UNCHANGED <<sniff_file, impVars, expVars, orgVars>>

InitSniff ==
    /\ sniff_file \in {<<f>> : f \in TxtFiles \cup JsonFiles \cup XmlFiles}
    /\ sniff_result = "pending"
    /\ ImportIdle /\ ExportIdle /\ OrganizeIdle
NextSniff == SniffYolo \/ SniffCoco \/ SniffPascalVoc
SpecSniff == InitSniff /\ [][NextSniff]_vars

(***************************************************************************)
(* The archive organizer: organize_files_and_identify_format walks the     *)
(* extracted tree directory by directory and moves each file it            *)
(* recognises.  A file is its directory (in walk order), its name (stem    *)
(* and extension) and its content.                                         *)
(***************************************************************************)
WalkDirs == {1, 2}
(* str.lower() left out: the extension is compared as it is written *)
LowerIdentity(ext) == ext
(* str.lower() on the sample extensions *)
Lower(ext) ==
    IF ext = ".PNG" THEN ".png"
    ELSE IF ext = ".XML" THEN ".xml"
    ELSE ext
ImageExts == {".png", ".jpg", ".jpeg"}
Pixels(d) == [ext |-> "image", pixels |-> d]
OrgContents(ext, d) ==
    IF Lower(ext) \in ImageExts THEN {Pixels(d)}
    ELSE IF Lower(ext) = ".xml"
    THEN {[ext |-> ".xml", wellformed |-> TRUE, tag |-> "annotation",
           hasObject |-> TRUE, from |-> d],
          [ext |-> ".xml", wellformed |-> TRUE, tag |-> "annotation",
           hasObject |-> FALSE, from |-> d]}
    ELSE IF ext = ".txt"
    THEN {[ext |-> ".txt", decodable |-> TRUE, from |-> d,
           lines |-> <<LineOf(YoloFields, <<"7">>)>>],
          [ext |-> ".txt", decodable |-> TRUE, from |-> d,
           lines |-> <<LineOf(2, <<"c", "a", "t">>)>>]}
    ELSE IF ext = ".json"
    THEN {[ext |-> ".json", kind |-> "object", from |-> d,
           has |-> {"annotations", "images", "categories"}],
          [ext |-> ".json", kind |-> "object", from |-> d,
           has |-> {"annotations", "images"}],
          [ext |-> ".json", kind |-> "null", from |-> d, has |-> {}]}
    ELSE {[ext |-> "other", from |-> d]}
OrgNames == {[stem |-> "a", ext |-> e] :
                e \in {".jpg", ".PNG", ".xml", ".XML", ".txt", ".json", ".md"}}
OrgFilesIn(d) ==
    UNION {{[dir |-> d, name |-> n, content |-> c] : c \in OrgContents(n.ext, d)} :
              n \in OrgNames}
OrgFiles == UNION {OrgFilesIn(d) : d \in WalkDirs}

(* shutil.move(file_path, os.path.join(images_dir, file)): the destination *)
(* is a file path, and a file already there is replaced                    *)
MoveToPath(bucket, name, content) == (name :> content) @@ bucket

(* _move_file -> shutil.move(file_path, destination_folder): the           *)
(* destination is a directory, and shutil.move raises shutil.Error if it   *)
(* already holds a file of that name                                       *)
MoveToDirRaises(bucket, folder, name) == <<folder, name>> \in DOMAIN bucket
MoveToDir(bucket, folder, name, content) == (<<folder, name>> :> content) @@ bucket

(* which sniff test the extension selects, and the bucket and format of a match *)
SniffOf(f) ==
    IF f.name.ext = ".xml" THEN IsPascalVoc(f.content)
    ELSE IF f.name.ext = ".txt" THEN IsYolo(f.content)
    ELSE IF f.name.ext = ".json" THEN IsCoco(f.content)
    ELSE "False"
FolderOf(ext) ==
    IF ext = ".xml" THEN "xml" ELSE IF ext = ".txt" THEN "yolo" ELSE "coco"
FormatOf(ext) ==
    IF ext = ".xml" THEN "Pascal VOC" ELSE IF ext = ".txt" THEN "YOLO" ELSE "COCO"

(* self.identified_format = '...' after a move *)
SetFormatFirstWins(old, new) == IF old = "None" THEN new ELSE old
SetFormat(old, new) == new

(* one iteration of `for file in files` *)
OrganizeFile ==
    /\ org_pc = "walk"
    /\ Len(walked) < MaxWalk
    /\ \E f \in OrgFiles :
        /\ \A k \in 1..Len(walked) :
              /\ walked[k].dir <= f.dir
              /\ <<walked[k].dir, walked[k].name>> # <<f.dir, f.name>>
        /\ walked' = Append(walked, f)
        /\ IF Lower(f.name.ext) \in ImageExts
           THEN /\ fs_images' = MoveToPath(fs_images, f.name, f.content)
                /\ num_images' = num_images + 1
                /\ UNCHANGED <<org_pc, fs_annotations, identified_format, num_annotations>>
           ELSE IF SniffOf(f) = "True"
           THEN IF MoveToDirRaises(fs_annotations, FolderOf(f.name.ext), f.name)
                THEN /\ org_pc' = "shutil.Error"
                     /\ UNCHANGED <<fs_images, fs_annotations, identified_format,
                                    num_images, num_annotations>>
                ELSE /\ fs_annotations' = MoveToDir(fs_annotations, FolderOf(f.name.ext),
                                                    f.name, f.content)
                     /\ identified_format' =
                            SetFormat(identified_format, FormatOf(f.name.ext))
                     /\ num_annotations' = num_annotations + 1
                     /\ UNCHANGED <<org_pc, fs_images, num_images>>
           ELSE IF SniffOf(f) = "False"
           THEN UNCHANGED <<org_pc, fs_images, fs_annotations, identified_format,
                            num_images, num_annotations>>
           ELSE /\ org_pc' = SniffOf(f)      \* the exception leaves the run
                /\ UNCHANGED <<fs_images, fs_annotations, identified_format,
                               num_images, num_annotations>>
    /\ UNCHANGED <<impVars, expVars, sniffVars>>

(* the walk ends *)
OrganizeDone ==
    /\ org_pc = "walk"
    /\ org_pc' = "done"
    /\ UNCHANGED <<walked, fs_images, fs_annotations, identified_format,
                   num_images, num_annotations>>
    /\ UNCHANGED <<impVars, expVars, sniffVars>>

InitOrganize ==
    /\ org_pc = "walk"
    /\ walked = <<>>
    /\ fs_images = <<>>
    /\ fs_annotations = <<>>
    /\ identified_format = "None"
    /\ num_images = 0
    /\ num_annotations = 0
    /\ ImportIdle /\ ExportIdle /\ SniffIdle
NextOrganize == OrganizeFile \/ OrganizeDone
SpecOrganize == InitOrganize /\ [][NextOrganize]_vars

(***************************************************************************)
(* Properties of the importers (checked under SpecImport).                 *)
(***************************************************************************)
RECURSIVE ObjectsOf(_)
ObjectsOf(files) ==
    IF files = <<>> THEN <<>> ELSE Head(files).objects \o ObjectsOf(Tail(files))
(* the object elements read so far, in processing order: object k is the   *)
(* source of ann_data[k]                                                   *)
SeenObjects == ObjectsOf(xml_files)
Table == df[1]

(* C1: in one VOC import run, two object elements with the same name text  *)
(* (in one file or in different files) get the same ann_category_id, in    *)
(* the annotation records and in the returned table, and exactly one       *)
(* category record exists for that name.                                   *)
C1_CategoryDedup ==
    /\ \A i, j \in 1..Len(ann_data) :
          SeenObjects[i].name = SeenObjects[j].name
          => ann_data[i].ann_category_id = ann_data[j].ann_category_id
    /\ \A i \in 1..Len(ann_data) :
          Cardinality({k \in 1..Len(cat_data) :
                         cat_data[k].cat_name = StrC(SeenObjects[i].name)}) = 1
    /\ (pc = "returned" /\ importer \in VocImporters) =>
          /\ \A i, j \in 1..Len(ann_data) :
                SeenObjects[i].name = SeenObjects[j].name
                => Table.rows[i]["ann_category_id"] = Table.rows[j]["ann_category_id"]
          /\ \A i \in 1..Len(ann_data) :
                Cardinality({k \in 1..Len(Table.rows) :
                    Table.rows[k]["cat_name"] = StrC(SeenObjects[i].name)}) = 1
C1_Witness ==
    /\ pc = "returned" /\ importer \in VocImporters
    /\ Len(xml_files) = 2
    /\ Len(xml_files[1].objects) = 2 /\ Len(xml_files[2].objects) = 1
    /\ xml_files[1].objects[1].name = xml_files[2].objects[1].name
    /\ xml_files[1].objects[1].name # xml_files[1].objects[2].name
    /\ Table.rows[1]["ann_category_id"] = Table.rows[3]["ann_category_id"]

(* C2: img_id is 0,1,...,F-1 in file order and ann_id is 0,1,...,N-1 in    *)
(* global object order (F files, N objects); ann_id does not restart per   *)
(* file.                                                                   *)
C2_ContiguousIds ==
    /\ \A k \in 1..Len(img_data) : img_data[k].img_id = IntC(k - 1)
    /\ \A k \in 1..Len(ann_data) : ann_data[k].ann_id = IntC(k - 1)
    /\ (pc = "returned" /\ importer \in VocImporters) =>
          /\ Len(img_data) = Len(xml_files)
          /\ Len(ann_data) = Len(SeenObjects)
          /\ \A k \in 1..Len(xml_files) : Table.rows[k]["img_id"] = IntC(k - 1)
          /\ \A k \in 1..Len(SeenObjects) : Table.rows[k]["ann_id"] = IntC(k - 1)
C2_Witness ==
    /\ pc = "returned" /\ importer \in VocImporters
    /\ Len(xml_files) = 2
    /\ Len(xml_files[1].objects) = 2 /\ Len(xml_files[2].objects) = 1
    /\ Table.rows[3]["ann_id"] = IntC(2)
    /\ Table.rows[3]["ann_image_id"] = IntC(1)
    /\ Table.rows[2]["img_id"] = IntC(1)

(* C3: a VOC object with integer bndbox (xmin, ymin, xmax, ymax) is        *)
(* imported with ann_bbox = [xmin, ymin, xmax - xmin, ymax - ymin] and     *)
(* ann_area = (xmax - xmin) * (ymax - ymin); the box [10, 20, 110, 220]    *)
(* gives [10, 20, 100, 200] and area 20000.                                *)
C3_BboxConversion ==
    \A k \in 1..Len(ann_data) :
       LET t == SeenObjects[k].bndbox
           xmin == IntOfText(t[1])
           ymin == IntOfText(t[2])
           xmax == IntOfText(t[3])
           ymax == IntOfText(t[4])
           bbox == ListC(<<xmin, ymin, xmax - xmin, ymax - ymin>>)
           area == IntC((xmax - xmin) * (ymax - ymin))
       IN /\ ann_data[k].ann_bbox = bbox
          /\ ann_data[k].ann_area = area
          /\ t = <<"10", "20", "110", "220">> =>
                /\ ann_data[k].ann_bbox = ListC(<<10, 20, 100, 200>>)
                /\ ann_data[k].ann_area = IntC(20000)
          /\ (pc = "returned" /\ importer \in VocImporters) =>
                /\ Table.rows[k]["ann_bbox"] = bbox
                /\ Table.rows[k]["ann_area"] = area
C3_Witness ==
    /\ pc = "returned" /\ importer \in VocImporters
    /\ \E k \in 1..Len(SeenObjects) :
          /\ SeenObjects[k].bndbox = <<"10", "20", "110", "220">>
          /\ Table.rows[k]["ann_bbox"] = ListC(<<10, 20, 100, 200>>)
          /\ Table.rows[k]["ann_area"] = IntC(20000)
    /\ \E k \in 1..Len(SeenObjects) :
          /\ SeenObjects[k].bndbox = <<"5", "5", "3", "9">>
          /\ Table.rows[k]["ann_bbox"] = ListC(<<5, 5, -2, 4>>)

(* C13: in a VOC import run the k-th distinct category name, in first-seen *)
(* order, has cat_id k-1: the map from name to cat_id is a bijection onto  *)
(* 0..K-1 for K distinct names, and an id, once assigned, never changes.   *)
VocRunning == importer \in VocImporters /\ pc \in {"loop", "objects", "returned"}
(* the object elements the loop has iterated over *)
Processed == SubSeq(SeenObjects, 1, Len(SeenObjects) - Len(objs))
RECURSIVE FirstSeen(_)
FirstSeen(q) ==
    IF q = <<>> THEN <<>>
    ELSE LET r == FirstSeen(SubSeq(q, 1, Len(q) - 1))
             n == q[Len(q)].name
         IN IF n \in Range(r) THEN r ELSE Append(r, n)
CatIdsInFirstSeenOrder ==
    /\ \A n, m \in DOMAIN categories : categories[n] = categories[m] => n = m
    /\ {categories[n] : n \in DOMAIN categories} = 0..(Cardinality(DOMAIN categories) - 1)
    /\ VocRunning =>
          LET names == FirstSeen(Processed)
          IN /\ DOMAIN categories = Range(names)
             /\ cat_id = Len(names)
             /\ Len(cat_data) = Len(names)
             /\ \A k \in 1..Len(names) :
                   /\ categories[names[k]] = k - 1
                   /\ cat_data[k] = [cat_id |-> IntC(k - 1), cat_name |-> StrC(names[k])]
CatIdsStable ==
    \A n \in DOMAIN categories :
        n \in DOMAIN categories' /\ categories'[n] = categories[n]
C13_CatIdBijection == []CatIdsInFirstSeenOrder /\ [][CatIdsStable]_vars
C13_Witness ==
    /\ pc = "returned" /\ importer \in VocImporters
    /\ Len(Processed) = 3
    /\ Processed[1].name = "cat" /\ Processed[2].name = "dog" /\ Processed[3].name = "cat"
    /\ categories = [n \in {"cat", "dog"} |-> IF n = "cat" THEN 0 ELSE 1]
    /\ Len(cat_data) = 2

(* C16: a table returned through the assembler has no null cell: every     *)
(* value absent from the source, the cells below the end of a shorter      *)
(* entity table included, is the empty string.                             *)
C16_NoNullCells ==
    (pc = "returned" /\ importer # "Coco2df.coco_to_dataframe") =>
        \A i \in 1..Len(Table.rows) : \A c \in Range(Table.columns) :
            ~IsNaN(Table.rows[i][c])

(* C18: in a VOC import run every annotation refers to records that exist: *)
(* its ann_image_id is the img_id of the image record of the file that     *)
(* holds the object, and its ann_category_id is the cat_id of a category   *)
(* record whose name is the object's name.                                 *)
RECURSIVE FileIndexes(_)
FileIndexes(files) ==
    IF files = <<>> THEN <<>>
    ELSE FileIndexes(SubSeq(files, 1, Len(files) - 1))
         \o [i \in 1..Len(files[Len(files)].objects) |-> Len(files)]
C18_NoDanglingReference ==
    /\ \A j \in 1..Len(ann_data) :
          LET k == FileIndexes(xml_files)[j]
          IN /\ k <= Len(img_data)
             /\ ann_data[j].ann_image_id = img_data[k].img_id
             /\ \E c \in 1..Len(cat_data) :
                   /\ cat_data[c].cat_id = ann_data[j].ann_category_id
                   /\ cat_data[c].cat_name = StrC(SeenObjects[j].name)
    /\ (pc = "returned" /\ importer \in VocImporters) =>
          \A j \in 1..Len(ann_data) :
             LET k == FileIndexes(xml_files)[j]
             IN /\ Table.rows[j]["ann_image_id"] = Table.rows[k]["img_id"]
                /\ \E c \in 1..Len(Table.rows) :
                      /\ AsStr(Table.rows[c]["cat_id"])
                            = AsStr(Table.rows[j]["ann_category_id"])
                      /\ Table.rows[c]["cat_name"] = StrC(SeenObjects[j].name)
C18_Witness ==
    /\ pc = "returned" /\ importer \in VocImporters
    /\ Len(xml_files) = 2
    /\ Len(xml_files[1].objects) = 1 /\ Len(xml_files[2].objects) = 2
    /\ xml_files[2].objects[1].name # xml_files[2].objects[2].name
    /\ Table.rows[3]["ann_image_id"] = IntC(1)
    /\ Table.rows[2]["ann_image_id"] = Table.rows[2]["img_id"]
    /\ AsStr(Table.rows[3]["ann_category_id"]) = StrC("1")

(* C4: every table an importer returns has exactly the columns of the      *)
(* fixed schema, in schema order, none missing and none extra.             *)
C4_SchemaExact ==
    pc = "returned" =>
       /\ Table.columns = schema
       /\ \A i \in 1..Len(Table.rows) : DOMAIN Table.rows[i] = Range(schema)

(* C10: a file that fails to parse (malformed XML, a missing or            *)
(* non-integer size or bndbox element) makes the whole import raise, with  *)
(* no table returned, however many files were parsed before it.            *)
VocFileFails(f) ==
    \/ VocImageRaises(f)
    \/ \E k \in 1..Len(f.objects) :
          f.objects[k].name = Missing \/ VocAnnotationRaises(f.objects[k])
C10_NoPartialResult ==
    /\ (\E k \in 1..Len(xml_files) : VocFileFails(xml_files[k])) =>
          /\ pc \in {"objects", "raised"}
          /\ df = <<>>
          /\ \A k \in 1..(Len(xml_files) - 1) : ~VocFileFails(xml_files[k])
    /\ (\E k \in 1..Len(xml_files) : VocImageRaises(xml_files[k])) => pc = "raised"
    /\ pc = "raised" => df = <<>>
    /\ (pc = "objects" /\ \E k \in 1..Len(xml_files) : VocFileFails(xml_files[k])) =>
          \E k \in 1..Len(objs) :
             objs[k].name = Missing \/ VocAnnotationRaises(objs[k])
C10_Witness ==
    /\ pc = "raised" /\ df = <<>>
    /\ Len(xml_files) = 2
    /\ ~VocFileFails(xml_files[1]) /\ Len(xml_files[1].objects) > 0
    /\ ~xml_files[2].wellformed
    /\ Len(img_data) = 1 /\ Len(ann_data) > 0

(***************************************************************************)
(* Properties of the exporter (checked under SpecExport).                  *)
(***************************************************************************)
(* the cell of row i is present: not null and not a blank string *)
Present(col, i) == ~IsNaN(BlankToNaN(dataframe[i][col]))
(* the rows among the first n whose col is present, in row order *)
PresentRows(col, n) == SelectSeq([i \in 1..n |-> i], LAMBDA i : Present(col, i))
Written == outfile[output_path][1]
Untouched ==
    /\ outfile[output_path] \in {<<>>, <<OldDocument>>}
    /\ \A p \in Paths \ {output_path} : outfile[p] = <<>>

(* C5: the exported document has one images entry per row whose img_id is  *)
(* present, one categories entry per row whose cat_id is present and one   *)
(* annotations entry per row whose ann_id is present, each in row order,   *)
(* with no deduplication.                                                  *)
C5_ExportGrouping ==
    /\ exp_pc \in {"rows", "written"} =>
          /\ Len(df_outputI) = Len(PresentRows("img_id", exp_i))
          /\ Len(df_outputC) = Len(PresentRows("cat_id", exp_i))
          /\ Len(df_outputA) = Len(PresentRows("ann_id", exp_i))
    /\ exp_pc = "written" =>
          LET n == Len(dataframe)
              I == PresentRows("img_id", n)
              C == PresentRows("cat_id", n)
              A == PresentRows("ann_id", n)
          IN /\ Len(Written.images) = Len(I)
             /\ Len(Written.categories) = Len(C)
             /\ Len(Written.annotations) = Len(A)
             /\ \A k \in 1..Len(I) :
                   /\ Written.images[k].id = ToInt(dataframe[I[k]]["img_id"])
                   /\ Written.images[k].file_name = dataframe[I[k]]["img_file_name"]
             /\ \A k \in 1..Len(C) :
                   /\ Written.categories[k].id = ToInt(dataframe[C[k]]["cat_id"])
                   /\ Written.categories[k].name = dataframe[C[k]]["cat_name"]
             /\ \A k \in 1..Len(A) :
                   /\ Written.annotations[k].id = dataframe[A[k]]["ann_id"]
                   /\ Written.annotations[k].area = dataframe[A[k]]["ann_area"]
C5_Witness ==
    /\ exp_pc = "written"
    /\ Len(dataframe) = 2
    /\ Present("img_id", 1) /\ Present("cat_id", 1) /\ Present("ann_id", 1)
    /\ ~Present("img_id", 2) /\ ~Present("cat_id", 2) /\ Present("ann_id", 2)
    /\ Len(Written.images) = 1
    /\ Len(Written.categories) = 1
    /\ Len(Written.annotations) = 2

(* C9 as stated: a row with a bbox, area or category field that is no      *)
(* number makes the export abort, so nothing is written.                   *)
NotNumeric(c) == IsStr(BlankToNaN(c)) /\ ~IsIntText(c.str)
C9_AnyBadFieldAborts ==
    (\E i \in 1..Len(dataframe) :
        \/ NotNumeric(dataframe[i]["ann_bbox"])
        \/ NotNumeric(dataframe[i]["ann_area"])
        \/ NotNumeric(dataframe[i]["ann_category_id"])
        \/ NotNumeric(dataframe[i]["cat_id"]))
    => exp_pc # "written"

(* C9, amended: the file at output_path is written only after every row    *)
(* was processed; a present cat_id, or the ann_category_id of a row whose  *)
(* ann_id is present, that int() does not accept aborts the export with    *)
(* the file untouched.  (bbox and area are copied as they are.)            *)
BadCategoryRow(i) ==
    \/ Present("cat_id", i) /\ IntRaises(BlankToNaN(dataframe[i]["cat_id"]))
    \/ Present("ann_id", i) /\ IntRaises(BlankToNaN(dataframe[i]["ann_category_id"]))
C9_AbortBeforeWrite ==
    /\ exp_pc # "written" => Untouched
    /\ exp_pc = "written" => exp_i = Len(dataframe)
    /\ \A i \in 1..exp_i : ~BadCategoryRow(i)
    /\ (\E i \in 1..Len(dataframe) : BadCategoryRow(i)) =>
          exp_pc # "written" /\ Untouched
C9_Witness ==
    /\ exp_pc = "raised"
    /\ Len(dataframe) = 3
    /\ exp_i = 1
    /\ ~BadCategoryRow(1) /\ BadCategoryRow(2)
    /\ Present("ann_id", 2) /\ dataframe[2]["ann_category_id"] = StrC("cat")
    /\ df_outputA # <<>> /\ df_outputI # <<>> /\ df_outputC # <<>>
    /\ outfile[output_path] = <<OldDocument>>

(* C11: exporting one table twice, to two output paths, writes two         *)
(* documents with the same content, and no step of an export changes the   *)
(* table the caller passed in.                                             *)
SecondWritten == exp_pc = "written" /\ output_path = "out2.json"
HasBlankCell(table) ==
    \E i \in 1..Len(table) : \E c \in DOMAIN table[i] :
        IsStr(table[i][c]) /\ table[i][c].str \in WhitespaceTexts
RECURSIVE SourceIds(_, _)
SourceIds(files, key) ==
    IF files = <<>> THEN <<>>
    ELSE [i \in 1..Len(Head(files)[key]) |-> Head(files)[key][i].id]
         \o SourceIds(Tail(files), key)
IdsVerbatim(col, key) ==
    LET ids == SourceIds(json_files, key)
    IN /\ Len(ids) <= Len(df[1].rows)
       /\ \A i \in 1..Len(ids) : df[1].rows[i][col] = ids[i]
C12_CocoMergeVerbatim ==
    /\ (importer = "AnnotationConverter.coco_to_dataframe" /\ pc = "returned") =>
          /\ IdsVerbatim("img_id", "images")
          /\ IdsVerbatim("cat_id", "categories")
          /\ IdsVerbatim("ann_id", "annotations")
    /\ (importer = "AnnotationConverter.coco_to_dataframe" /\ exp_pc = "written") =>
          /\ [i \in 1..Len(Written.categories) |-> Written.categories[i].id]
                = SourceIds(json_files, "categories")
          /\ [i \in 1..Len(Written.images) |-> Written.images[i].id]
                = SourceIds(json_files, "images")
          /\ [i \in 1..Len(Written.annotations) |-> Written.annotations[i].id]
                = SourceIds(json_files, "annotations")
C12_Witness ==
    /\ importer = "AnnotationConverter.coco_to_dataframe"
    /\ exp_pc = "written"
    /\ Len(json_files) = 2
    /\ json_files[1].categories = <<CocoCategory(0, "cat")>>
    /\ json_files[2].categories = <<CocoCategory(0, "dog")>>
    /\ Len(Written.categories) = 2
    /\ Written.categories[1].id = IntC(0) /\ Written.categories[1].name = StrC("cat")
    /\ Written.categories[2].id = IntC(0) /\ Written.categories[2].name = StrC("dog")

(* C17: the image record of a row whose img_id is present has id, width,   *)
(* height, image_name and file_name equal to the row's img_id, img_width,  *)
(* img_height, img_image_name and img_file_name; image_name is the row's   *)
(* img_image_name and not its img_file_name.                               *)
C17_ImageRecordFields ==
    exp_pc \in {"rows", "written"} =>
        LET I == PresentRows("img_id", exp_i)
        IN \A k \in 1..Len(df_outputI) :
              LET r == exp_df[I[k]]
              IN /\ df_outputI[k].id \in {r["img_id"], ToInt(r["img_id"])}
                 /\ df_outputI[k].width = r["img_width"]
                 /\ df_outputI[k].height = r["img_height"]
                 /\ df_outputI[k].file_name = r["img_file_name"]
                 /\ df_outputI[k].image_name = r["img_image_name"]

(***************************************************************************)
(* Properties of the sniffers (checked under SpecSniff).                   *)
(***************************************************************************)
(* C7: _is_yolo returns True only if every non-empty line has exactly 5    *)
(* fields that are all numbers; one malformed line disqualifies the file.  *)
C7_YoloEveryLine ==
    (sniff_file[1].ext = ".txt" /\ sniff_result = "True") =>
       \A k \in 1..Len(sniff_file[1].lines) :
          LET parts == sniff_file[1].lines[k]
          IN Len(parts) > 0 =>
                /\ Len(parts) = 5
                /\ \A i \in 1..Len(parts) : IsDigitText(RemoveFirstDot(parts[i]))

(* C8: _is_coco returns True exactly when the file parses as JSON and its  *)
(* top-level value is an object with the keys annotations, images and      *)
(* categories; for every other content it returns False, and no exception  *)
(* escapes.                                                                *)
C8_CocoIffObjectWithKeys ==
    (sniff_file[1].ext = ".json" /\ sniff_result # "pending") =>
       /\ sniff_result \in {"True", "False"}
       /\ sniff_result = "True" <=>
             /\ sniff_file[1].kind = "object"
             /\ {"annotations", "images", "categories"} \subseteq sniff_file[1].has

(***************************************************************************)
(* Properties of the organizer (checked under SpecOrganize).               *)
(***************************************************************************)
(* the files among the walked ones that the organizer moves *)
IsImage(f) == Lower(f.name.ext) \in ImageExts
IsAnnotation(f) == ~IsImage(f) /\ SniffOf(f) = "True"

(* C6: a file moved to a bucket that already holds a file of its name is   *)
(* stored under a new name and the existing file is kept: every moved      *)
(* file is still in its bucket, and the run does not fail on the move.     *)
C6_MoveCollisionKeepsBoth ==
    /\ org_pc # "shutil.Error"
    /\ \A k \in 1..Len(walked) :
          LET f == walked[k]
          IN /\ IsImage(f) =>
                   \E n \in DOMAIN fs_images : fs_images[n] = f.content
             /\ (IsAnnotation(f) /\ org_pc \in {"walk", "done"}) =>
                   \E n \in DOMAIN fs_annotations : fs_annotations[n] = f.content

(* C14: when the organize run has returned, identified_format is the       *)
(* format of the last file in walk order that passed its sniff test, and   *)
(* None if no file passed; an earlier detected format is overwritten.      *)
RECURSIVE LastFormat(_)
LastFormat(files) ==
    IF files = <<>> THEN "None"
    ELSE IF IsAnnotation(files[Len(files)]) THEN FormatOf(files[Len(files)].name.ext)
    ELSE LastFormat(SubSeq(files, 1, Len(files) - 1))
C14_LastFormatWins ==
    org_pc \in {"walk", "done"} => identified_format = LastFormat(walked)
C14_Witness ==
    /\ org_pc = "done"
    /\ Len(walked) = 3
    /\ IsAnnotation(walked[1]) /\ FormatOf(walked[1].name.ext) = "Pascal VOC"
    /\ IsAnnotation(walked[2]) /\ FormatOf(walked[2].name.ext) = "YOLO"
    /\ walked[3].name.ext = ".json" /\ SniffOf(walked[3]) = "False"
    /\ identified_format = "YOLO"

(* C15: num_images is the number of files with a .png/.jpg/.jpeg extension *)
(* in any letter case moved so far, num_annotations is the number of       *)
(* .xml/.txt/.json files that passed their sniff test and were moved; a    *)
(* file that fails its sniff test is not moved and changes neither         *)
(* counter nor identified_format.                                          *)
HasImageExtension(f) == f.name.ext \in {".png", ".jpg", ".jpeg", ".PNG", ".JPG", ".JPEG"}
MovedAnnotations ==
    Cardinality({k \in 1..Len(walked) :
        /\ IsAnnotation(walked[k])
        /\ ~(k = Len(walked) /\ org_pc = "shutil.Error")})
CountersMatch ==
    /\ num_images = Cardinality({k \in 1..Len(walked) : HasImageExtension(walked[k])})
    /\ num_annotations = MovedAnnotations
    /\ num_annotations = Cardinality(DOMAIN fs_annotations)
FailedSniffLeavesAll ==
    (/\ Len(walked') = Len(walked) + 1
     /\ ~HasImageExtension(walked'[Len(walked')])
     /\ SniffOf(walked'[Len(walked')]) # "True")
    => UNCHANGED <<fs_images, fs_annotations, identified_format,
                   num_images, num_annotations>>
C15_Counters == []CountersMatch /\ [][FailedSniffLeavesAll]_vars
C15_Witness ==
    /\ org_pc = "done"
    /\ Len(walked) = 3
    /\ walked[1].name.ext = ".PNG"
    /\ IsAnnotation(walked[2])
    /\ walked[3].name.ext = ".txt" /\ SniffOf(walked[3]) = "False"
    /\ num_images = 1 /\ num_annotations = 1
    /\ identified_format = FormatOf(walked[2].name.ext)
====
